---- MODULE Spec2Model ----
(***************************************************************************)
(* Model of the two demo services of microservices-demo:                   *)
(*   productservice/app.py  GET /products -> jsonify(sample_products)      *)
(*   cartservice/app.py     GET /cart     -> requests.get(URL).json()[:2]  *)
(* The cart handler is split at its blocking points: the outbound call is  *)
(* issued, the network resolves it (or never does), .json() binds the      *)
(* local `products`, and the slice is returned through jsonify.            *)
(***************************************************************************)
EXTENDS Integers, Sequences, FiniteSets, TLC

\* number of /cart requests that may be in flight or finished
MaxReqs == 2
\* longest catalog a substituted upstream server returns
MaxLen == 3

Reqs == 1 .. MaxReqs

VARIABLES
    pc,              \* where each /cart request stands in cart()
    net,             \* what became of its outbound call
    upstream,        \* the response that call received
    local_products,  \* cart()'s local `products`, one per request
    response,        \* what the /cart request answered
    calls,           \* outbound GETs sent on behalf of each request
    served           \* the responses GET /products has produced

vars == <<pc, net, upstream, local_products, response, calls, served>>

Min(a, b) == IF a < b THEN a ELSE b

(***************************************************************************)
(* JSON on the wire and in the process.  On the wire an object is a        *)
(* sequence of <<key, value>> pairs in the order they were written; in the *)
(* process it is a dict (a function on its keys).  jsonify writes keys in  *)
(* sorted order.                                                           *)
(***************************************************************************)
KeyOrder == <<"error", "id", "name">>

\* dict(pairs): a later pair with the same key wins
ParseObject(pairs) ==
    [k \in {pairs[i][1] : i \in DOMAIN pairs} |->
        pairs[CHOOSE i \in DOMAIN pairs :
                /\ pairs[i][1] = k
                /\ \A j \in DOMAIN pairs : pairs[j][1] = k => j <= i][2]]

DumpObject(d) ==
    LET keys == SelectSeq(KeyOrder, LAMBDA k : k \in DOMAIN d)
    IN  [i \in DOMAIN keys |-> <<keys[i], d[keys[i]]>>]

\* Response.json(): the body as a Python value
Json(body) ==
    CASE body.kind = "array"  -> [t |-> "list", v |-> [i \in DOMAIN body.val |-> ParseObject(body.val[i])]]
      [] body.kind = "object" -> [t |-> "dict", v |-> ParseObject(body.val)]
      [] body.kind = "string" -> [t |-> "str", v |-> body.val]

\* .json() raises on a body that is not JSON
IsJson(body) == body.kind \in {"array", "object", "string"}

\* json.dumps of a list of dicts or of a str
Dumps(p) ==
    CASE p.t = "list" -> [kind |-> "array", val |-> [i \in DOMAIN p.v |-> DumpObject(p.v[i])]]
      [] p.t = "str"  -> [kind |-> "string", val |-> p.v]

\* the list with its last entry dropped, as a handler that pops from it leaves it
sample_products_popped ==
    [t |-> "list",
     v |-> << [id |-> 1, name |-> "Laptop"],
              [id |-> 2, name |-> "Mouse"] >>]

\* productservice: the list built on every call
sample_products ==
    [t |-> "list",
     v |-> << [id |-> 1, name |-> "Laptop"],
              [id |-> 2, name |-> "Mouse"],
              [id |-> 3, name |-> "Keyboard"] >>]

\* productservice: GET /products
products == [status |-> 200, body |-> Dumps(sample_products)]

\* indexing products[0], products[1] instead of slicing: short lists raise
Sliceable_indexed(p) == p.t \in {"list", "str"} /\ Len(p.v) >= 2

\* cartservice: products[:2] is defined for sequences only
Sliceable(p) == p.t \in {"list", "str"}

\* products[:3]
cart_items_three(p) == [t |-> p.t, v |-> SubSeq(p.v, 1, Min(3, Len(p.v)))]

\* products[1:3]
cart_items_shifted(p) == [t |-> p.t, v |-> SubSeq(p.v, 2, Min(3, Len(p.v)))]

\* a cart that remembers it was asked before and hands out one item less
cart_items_remembering(p) ==
    [t |-> p.t,
     v |-> SubSeq(p.v, 1, Min(IF \E q \in Reqs : pc[q] = "done" THEN 1 ELSE 2, Len(p.v)))]

\* cartservice: cart_items = products[:2]
cart_items(p) == [t |-> p.t, v |-> SubSeq(p.v, 1, Min(2, Len(p.v)))]

\* cartservice: jsonify({"cart": cart_items})
JsonifyCart(items) ==
    [status |-> 200, body |-> [kind |-> "object", val |-> << <<"cart", Dumps(items)>> >>]]

\* Flask's answer to an exception that leaves the view function
ServerError == [status |-> 500, body |-> [kind |-> "text", val |-> <<>>]]

NoResponse == [status |-> 0, body |-> [kind |-> "text", val |-> <<>>]]
Unbound == [t |-> "unbound", v |-> <<>>]

(***************************************************************************)
(* What may answer at PRODUCT_SERVICE_URL instead of the product service.  *)
(***************************************************************************)
WireLaptop == << <<"id", 1>>, <<"name", "Laptop">> >>
WireMouse  == << <<"name", "Mouse">>, <<"id", 2>> >>
\* catalogs of 0 .. MaxLen entries: Mouse, Laptop, Mouse, ...
StubCatalog(n) == [i \in 1 .. n |-> IF i % 2 = 1 THEN WireMouse ELSE WireLaptop]
StubCatalogs == {StubCatalog(n) : n \in 0 .. MaxLen}
NotJsonBody == [kind |-> "text", val |-> <<>>]
ErrorObject == [kind |-> "object", val |-> << <<"error", "unavailable">> >>]
StubBodies ==
    {[kind |-> "array", val |-> c] : c \in StubCatalogs}
      \cup {ErrorObject, [kind |-> "string", val |-> <<"o", "o", "p">>], NotJsonBody}
\* what a failing upstream sends with its 503: an error page, an error
\* object, or a catalog all the same
ErrorBodies ==
    {NotJsonBody, ErrorObject,
     [kind |-> "array", val |-> StubCatalog(0)],
     [kind |-> "array", val |-> StubCatalog(MaxLen)]}
StubResponses == [status : {200}, body : StubBodies] \cup [status : {503}, body : ErrorBodies]

Init ==
    /\ pc = [r \in Reqs |-> "idle"]
    /\ net = [r \in Reqs |-> "none"]
    /\ upstream = [r \in Reqs |-> NoResponse]
    /\ local_products = [r \in Reqs |-> Unbound]
    /\ response = [r \in Reqs |-> NoResponse]
    /\ calls = [r \in Reqs |-> 0]
    /\ served = {}

\* cart(): requests.get(PRODUCT_SERVICE_URL) sends the request and blocks
Issue(r) ==
    /\ pc[r] = "idle"
    /\ pc' = [pc EXCEPT ![r] = "calling"]
    /\ net' = [net EXCEPT ![r] = "inflight"]
    /\ calls' = [calls EXCEPT ![r] = @ + 1]
    /\ UNCHANGED <<upstream, local_products, response, served>>

\* the product service answers the cart service's call
ServeProducts(r) ==
    /\ net[r] = "inflight"
    /\ net' = [net EXCEPT ![r] = "responded"]
    /\ upstream' = [upstream EXCEPT ![r] = products]
    /\ served' = served \cup {products}
    /\ UNCHANGED <<pc, local_products, response, calls>>

\* a client calls GET /products directly
ClientGetProducts ==
    /\ served' = served \cup {products}
    /\ UNCHANGED <<pc, net, upstream, local_products, response, calls>>

\* another server at the address answers
StubRespond(r) ==
    /\ net[r] = "inflight"
    /\ \E resp \in StubResponses :
          upstream' = [upstream EXCEPT ![r] = resp]
    /\ net' = [net EXCEPT ![r] = "responded"]
    /\ UNCHANGED <<pc, local_products, response, calls, served>>

\* the connection fails (refused, reset, name not resolved)
ConnFail(r) ==
    /\ net[r] = "inflight"
    /\ net' = [net EXCEPT ![r] = "connfail"]
    /\ UNCHANGED <<pc, upstream, local_products, response, calls, served>>

\* the upstream accepts the connection and never answers
Hang(r) ==
    /\ net[r] = "inflight"
    /\ net' = [net EXCEPT ![r] = "hung"]
    /\ UNCHANGED <<pc, upstream, local_products, response, calls, served>>

\* requests.get(..., timeout=t): a hung call raises Timeout
CanReturn_timeout(r) == net[r] \in {"responded", "connfail", "hung"}

\* requests.get without timeout= returns or raises only once the call resolved
CanReturn(r) == net[r] \in {"responded", "connfail"}

\* a handler that starts over after a failure
Fault_retry(r) ==
    /\ pc' = [pc EXCEPT ![r] = "idle"]
    /\ UNCHANGED <<response, local_products>>

\* a handler that catches the failure and answers an empty cart
Fault_fallback(r) ==
    /\ pc' = [pc EXCEPT ![r] = "done"]
    /\ response' = [response EXCEPT ![r] = JsonifyCart([t |-> "list", v |-> <<>>])]
    /\ UNCHANGED local_products

\* an exception leaves cart(): Flask answers 500, nothing is retried
Fault(r) ==
    /\ pc' = [pc EXCEPT ![r] = "done"]
    /\ response' = [response EXCEPT ![r] = ServerError]
    /\ UNCHANGED local_products

\* `products` kept in a module-level name that every request writes
BindProducts_global(r, value) == [q \in Reqs |-> value]

\* products = <response>.json()
BindProducts(r, value) == [local_products EXCEPT ![r] = value]

\* cart(): requests.get(...) returns or raises; .json() parses the body
Receive(r) ==
    /\ pc[r] = "calling"
    /\ CanReturn(r)
    /\ IF net[r] = "responded" /\ IsJson(upstream[r].body)
       THEN /\ local_products' = BindProducts(r, Json(upstream[r].body))
            /\ pc' = [pc EXCEPT ![r] = "slicing"]
            /\ UNCHANGED response
       ELSE Fault(r)
    /\ UNCHANGED <<net, upstream, calls, served>>

\* cart(): cart_items = products[:2]; return jsonify({"cart": cart_items})
Return(r) ==
    /\ pc[r] = "slicing"
    /\ IF Sliceable(local_products[r])
       THEN /\ response' = [response EXCEPT ![r] = JsonifyCart(cart_items(local_products[r]))]
            /\ pc' = [pc EXCEPT ![r] = "done"]
            /\ UNCHANGED local_products
       ELSE Fault(r)
    /\ UNCHANGED <<net, upstream, calls, served>>

Next ==
    \/ \E r \in Reqs : Issue(r)
    \/ \E r \in Reqs : ServeProducts(r)
    \/ ClientGetProducts
    \/ \E r \in Reqs : StubRespond(r)
    \/ \E r \in Reqs : ConnFail(r)
    \/ \E r \in Reqs : Hang(r)
    \/ \E r \in Reqs : Receive(r)
    \/ \E r \in Reqs : Return(r)

Spec == Init /\ [][Next]_vars

\* a worker thread that can run its handler does run it
FairSpec ==
    /\ Spec
    /\ \A r \in Reqs : WF_vars(Receive(r))
    /\ \A r \in Reqs : WF_vars(Return(r))

TypeOK ==
    /\ pc \in [Reqs -> {"idle", "calling", "slicing", "done"}]
    /\ net \in [Reqs -> {"none", "inflight", "responded", "connfail", "hung"}]
    /\ calls \in [Reqs -> 0 .. 1]

(***************************************************************************)
(* Properties                                                              *)
(***************************************************************************)
Done(r) == pc[r] = "done"

\* the upstream answered the request's call with a JSON array
GotCatalog(r) == net[r] = "responded" /\ upstream[r].body.kind = "array"

\* the catalog as a client of /products reads it
Catalog(r) == Json(upstream[r].body).v

\* a /cart response that is a 200 with a JSON object holding "cart"
HasCart(resp) ==
    /\ resp.status = 200
    /\ resp.body.kind = "object"
    /\ "cart" \in DOMAIN ParseObject(resp.body.val)

\* the cart field as a client of /cart reads it
CartOf(resp) == Json(ParseObject(resp.body.val)["cart"])

IsPrefix(s, t) == Len(s) <= Len(t) /\ \A i \in 1 .. Len(s) : s[i] = t[i]

\* what cart() makes of one resolved outbound call, taken on its own
Outcome(n, u) ==
    IF n = "responded" /\ IsJson(u.body) /\ Json(u.body).t \in {"list", "str"}
    THEN [status |-> 200,
          body |-> [kind |-> "object",
                    val |-> << <<"cart",
                                 Dumps([t |-> Json(u.body).t,
                                        v |-> IF Len(Json(u.body).v) <= 2
                                              THEN Json(u.body).v
                                              ELSE <<Json(u.body).v[1], Json(u.body).v[2]>>])>> >>]]
    ELSE [status |-> 500, body |-> [kind |-> "text", val |-> <<>>]]

\* C1: a finished /cart request whose upstream call returned a catalog of at
\* least two entries answered 200 with a cart equal to the catalog's first
\* two entries, in order, each entry with the same fields and values.
C1_FirstTwo ==
    \A r \in Reqs :
        (Done(r) /\ GotCatalog(r) /\ Len(upstream[r].body.val) >= 2) =>
            /\ HasCart(response[r])
            /\ CartOf(response[r]) = [t |-> "list", v |-> <<Catalog(r)[1], Catalog(r)[2]>>]

C1_Witness ==
    \E r \in Reqs :
        /\ Done(r) /\ GotCatalog(r)
        /\ Len(upstream[r].body.val) = 3
        /\ upstream[r].body.val = StubCatalog(3)
        /\ HasCart(response[r])

\* C2: a finished /cart request whose upstream call returned a non-2xx status
\* answered with the server error, never with a 200 carrying a cart.
C2_Non2xxPropagates ==
    \A r \in Reqs :
        (Done(r) /\ net[r] = "responded" /\ upstream[r].status \notin 200 .. 299) =>
            /\ response[r].status = 500
            /\ ~HasCart(response[r])

\* C3: a finished /cart request whose upstream call returned a catalog of zero
\* or one entries answered 200 with a cart equal to that whole catalog.
C3_ShortCatalog ==
    \A r \in Reqs :
        (Done(r) /\ GotCatalog(r) /\ Len(upstream[r].body.val) <= 1) =>
            /\ HasCart(response[r])
            /\ CartOf(response[r]) = [t |-> "list", v |-> Catalog(r)]

C3_Witness ==
    /\ \E r \in Reqs :
          /\ Done(r) /\ GotCatalog(r)
          /\ Len(upstream[r].body.val) = 1
          /\ HasCart(response[r])
    /\ \E r \in Reqs :
          /\ Done(r) /\ GotCatalog(r)
          /\ Len(upstream[r].body.val) = 0
          /\ HasCart(response[r])

\* C4: every successful /cart response carries a cart of at most two elements
\* that is a prefix of what the upstream returned to that request's own call.
C4_PrefixOfOwnCatalog ==
    \A r \in Reqs :
        (Done(r) /\ response[r].status = 200) =>
            /\ net[r] = "responded"
            /\ IsJson(upstream[r].body)
            /\ HasCart(response[r])
            /\ Len(CartOf(response[r]).v) <= 2
            /\ IsPrefix(CartOf(response[r]).v, Json(upstream[r].body).v)

\* two finished requests saw different catalogs; the later catalog would not
\* have produced the earlier cart
C4_Witness ==
    \E r, q \in Reqs :
        /\ r # q
        /\ Done(r) /\ Done(q)
        /\ GotCatalog(r) /\ GotCatalog(q)
        /\ Len(Catalog(r)) = 3 /\ Len(Catalog(q)) = 3
        /\ HasCart(response[r]) /\ HasCart(response[q])
        /\ ~IsPrefix(CartOf(response[r]).v, Catalog(q))

\* C5: a finished /cart request whose outbound call could not reach the
\* product service answered with the server error: not 2xx, no cart.
C5_Unreachable ==
    \A r \in Reqs :
        (Done(r) /\ net[r] = "connfail") =>
            /\ response[r].status \notin 200 .. 299
            /\ ~HasCart(response[r])

C5_Witness == \E r \in Reqs : Done(r) /\ net[r] = "connfail"

\* C6: every response GET /products has produced is a 200 whose body reads as
\* Laptop(1), Mouse(2), Keyboard(3) in that order, so all of them are equal.
C6_StableProducts ==
    \A resp \in served :
        /\ resp.status = 200
        /\ resp.body.kind = "array"
        /\ Json(resp.body).v = << [id |-> 1, name |-> "Laptop"],
                                  [id |-> 2, name |-> "Mouse"],
                                  [id |-> 3, name |-> "Keyboard"] >>

\* /products has answered a cart request and, later, others are still served
C6_Witness ==
    /\ served # {}
    /\ \E r \in Reqs : Done(r) /\ upstream[r] \in served
    /\ \E r \in Reqs : Done(r) /\ net[r] = "connfail"

\* C7: two finished /cart requests whose outbound calls resolved the same way
\* with the same upstream response answered identically.
C7_Idempotent ==
    \A r, q \in Reqs :
        (Done(r) /\ Done(q) /\ net[r] = net[q] /\ upstream[r] = upstream[q]) =>
            response[r] = response[q]

C7_Witness ==
    \E r, q \in Reqs :
        /\ r # q
        /\ Done(r) /\ Done(q)
        /\ GotCatalog(r) /\ Len(Catalog(r)) = 3
        /\ upstream[r] = upstream[q]
        /\ HasCart(response[r])

\* C8: a /cart request has sent no outbound GET before it is handled and
\* exactly one from then on, also after the call failed and the request
\* finished.
C8_OneCall ==
    \A r \in Reqs :
        /\ calls[r] <= 1
        /\ pc[r] = "idle" => calls[r] = 0
        /\ pc[r] # "idle" => calls[r] = 1

C8_Witness ==
    /\ \E r \in Reqs : Done(r) /\ net[r] = "connfail" /\ calls[r] = 1
    /\ \E r \in Reqs : Done(r) /\ HasCart(response[r]) /\ calls[r] = 1

\* C9: a /cart request is finished only when its outbound call has resolved;
\* once the call has resolved the request eventually finishes; a call that
\* hangs stays hung and its request never finishes.
C9_Blocking ==
    /\ [](\A r \in Reqs : Done(r) => net[r] \in {"responded", "connfail"})
    /\ \A r \in Reqs : (net[r] \in {"responded", "connfail"}) ~> Done(r)
    /\ [][\A r \in Reqs : net[r] = "hung" => net'[r] = "hung" /\ pc'[r] = "calling"]_vars

C9_Witness ==
    \E r, q \in Reqs :
        /\ net[r] = "hung" /\ pc[r] = "calling"
        /\ Done(q) /\ net[q] = "connfail"

\* C10: whatever the interleaving, the local `products` of a request is the
\* parsed body of its own upstream response, and its answer is what that one
\* resolved call yields on its own.
C10_Isolated ==
    \A r \in Reqs :
        /\ pc[r] = "slicing" => local_products[r] = Json(upstream[r].body)
        /\ Done(r) => response[r] = Outcome(net[r], upstream[r])

\* one request failed while another, overlapping it, got its own cart
C10_Witness ==
    \E r, q \in Reqs :
        /\ Done(r) /\ net[r] = "connfail"
        /\ Done(q) /\ GotCatalog(q) /\ HasCart(response[q])
        /\ Len(Catalog(q)) = 3
====
